---- MODULE Spec2Model ----
(***************************************************************************)
(* Approval state of a merge request (marge/approvals.py, class Approvals). *)
(*                                                                         *)
(* Python values are modelled as follows.                                  *)
(*   str            a TLA+ string, read character by character             *)
(*   dict           a function whose domain is the set of its keys         *)
(*   list           a sequence                                             *)
(*   set of str     [kind |-> "set", elems |-> S]                          *)
(*   [] (codeowners) [kind |-> "list", elems |-> {}]                       *)
(*   None           [none |-> TRUE]                                        *)
(*   the outcome of a call: Returned(v), or Raise(e) when exception e      *)
(*   propagates out of it                                                  *)
(***************************************************************************)
EXTENDS Integers, Sequences, FiniteSets, TLC

VARIABLES _info, last

vars == <<_info, last>>

None == [none |-> TRUE]

PySet(S) == [kind |-> "set", elems |-> S]

PyEmptyList == [kind |-> "list", elems |-> {}]

Returned(v) == [raised |-> FALSE, value |-> v]

Raise(e) == [raised |-> TRUE, exc |-> e]

Max(a, b) == IF a >= b THEN a ELSE b

(***************************************************************************)
(* str.splitlines(): the content is cut at every line boundary; a boundary *)
(* at the very end opens no further line.  The boundaries expressible here *)
(* are \n, \r, \r\n and \f.                                                *)
(***************************************************************************)
LineBoundaries == {"\n", "\r", "\f"}

RECURSIVE SplitLinesFrom(_, _, _)
SplitLinesFrom(s, cur, acc) ==
    IF s = "" THEN (IF cur = "" THEN acc ELSE Append(acc, cur))
    ELSE IF Head(s) = "\r" /\ Len(s) >= 2 /\ Head(Tail(s)) = "\n"
         THEN SplitLinesFrom(Tail(Tail(s)), "", Append(acc, cur))
    ELSE IF Head(s) \in LineBoundaries
         THEN SplitLinesFrom(Tail(s), "", Append(acc, cur))
    ELSE SplitLinesFrom(Tail(s), cur \o Head(s), acc)

splitlines(s) == SplitLinesFrom(s, "", <<>>)

startswith(s, c) == s # "" /\ Head(s) = c

(***************************************************************************)
(* str.strip(chars) with a single character: every leading and every       *)
(* trailing occurrence of the character is removed.                        *)
(***************************************************************************)
RECURSIVE lstrip(_, _)
lstrip(s, c) == IF s # "" /\ Head(s) = c THEN lstrip(Tail(s), c) ELSE s

RECURSIVE rstrip(_, _)
rstrip(s, c) ==
    IF s # "" /\ SubSeq(s, Len(s), Len(s)) = c
    THEN rstrip(SubSeq(s, 1, Len(s) - 1), c)
    ELSE s

strip(s, c) == rstrip(lstrip(s, c), c)

(***************************************************************************)
(* shlex.split(line): the POSIX tokenizer with whitespace_split and no     *)
(* comment characters.  state is " " (between tokens), "a" (in a word), a  *)
(* quote character (inside quotes) or the escape character (after a        *)
(* backslash).  The result is the token list, or the ValueError raised at  *)
(* the end of input inside quotes or right after a backslash.              *)
(***************************************************************************)
ShlexWhitespace == {" ", "\t", "\r", "\n"}

ShlexQuotes == {"'", "\""}

ShlexEscape == "\\"

ShlexEscapedQuotes == {"\""}

RECURSIVE ShlexScan(_, _, _, _, _, _)
ShlexScan(s, state, escapedstate, token, quoted, acc) ==
    IF s = "" THEN
        IF state \in ShlexQuotes \/ state = ShlexEscape THEN Raise("ValueError")
        ELSE IF state = "a" /\ (token # "" \/ quoted) THEN Returned(Append(acc, token))
        ELSE Returned(acc)
    ELSE LET c == Head(s)
             r == Tail(s)
         IN
         IF state = " " THEN
             IF c \in ShlexWhitespace THEN ShlexScan(r, " ", escapedstate, "", FALSE, acc)
             ELSE IF c = ShlexEscape THEN ShlexScan(r, c, "a", token, quoted, acc)
             ELSE IF c \in ShlexQuotes THEN ShlexScan(r, c, escapedstate, token, quoted, acc)
             ELSE ShlexScan(r, "a", escapedstate, c, quoted, acc)
         ELSE IF state \in ShlexQuotes THEN
             IF c = state THEN ShlexScan(r, "a", escapedstate, token, TRUE, acc)
             ELSE IF c = ShlexEscape /\ state \in ShlexEscapedQuotes
                  THEN ShlexScan(r, c, state, token, TRUE, acc)
             ELSE ShlexScan(r, state, escapedstate, token \o c, TRUE, acc)
         ELSE IF state = ShlexEscape THEN
             IF escapedstate \in ShlexQuotes /\ c # state /\ c # escapedstate
             THEN ShlexScan(r, escapedstate, escapedstate, (token \o state) \o c, quoted, acc)
             ELSE ShlexScan(r, escapedstate, escapedstate, token \o c, quoted, acc)
         ELSE \* state = "a"
             IF c \in ShlexWhitespace THEN
                 IF token # "" \/ quoted
                 THEN ShlexScan(r, " ", escapedstate, "", FALSE, Append(acc, token))
                 ELSE ShlexScan(r, " ", escapedstate, token, quoted, acc)
             ELSE IF c \in ShlexQuotes THEN ShlexScan(r, c, escapedstate, token, quoted, acc)
             ELSE IF c = ShlexEscape THEN ShlexScan(r, c, "a", token, quoted, acc)
             ELSE ShlexScan(r, "a", escapedstate, token \o c, quoted, acc)

shlex_split(line) == ShlexScan(line, " ", " ", "", FALSE, <<>>)

(***************************************************************************)
(* fnmatch.fnmatch(name, pat) on a POSIX host (normcase is the identity):  *)
(* "*" matches any run of characters, "/" included, "?" any one character, *)
(* every other character itself.  Bracket classes are not modelled: no     *)
(* glob of the model contains "[".                                         *)
(***************************************************************************)
RECURSIVE fnmatch(_, _)
fnmatch(name, pat) ==
    IF pat = "" THEN name = ""
    ELSE IF Head(pat) = "*"
         THEN fnmatch(name, Tail(pat)) \/ (name # "" /\ fnmatch(Tail(name), pat))
    ELSE IF Head(pat) = "?"
         THEN name # "" /\ fnmatch(Tail(name), Tail(pat))
    ELSE name # "" /\ Head(name) = Head(pat) /\ fnmatch(Tail(name), Tail(pat))

(***************************************************************************)
(* The host as it answers during one operation: for every endpoint the     *)
(* outcome of a call to it, Returned(data) or Raise("ApiError").  approve  *)
(* holds the position of the first approve call that fails (0: none does). *)
(***************************************************************************)
ApiEndpoints == {"version", "approvals", "repo_file", "changes", "award_emoji", "approve"}

GET(url) == [method |-> "GET", url |-> url]

POST(url) == [method |-> "POST", url |-> url]

ApiCall(api, request) == api[request.url[Len(request.url)]]

\* Resource.id, Approvals.iid and Approvals.project_id read the cached dict.
id(self) == self["id"]

iid(self) == self["iid"]

project_id(self) == self["project_id"]

(***************************************************************************)
(* The release from which merge requests are addressed by iid, and the     *)
(* comparison of two release tuples (Python compares tuples                *)
(* lexicographically).                                                     *)
(***************************************************************************)
IidRelease == <<9, 2, 2>>

RECURSIVE TupleGE(_, _)
TupleGE(a, b) ==
    IF b = <<>> THEN TRUE
    ELSE IF a = <<>> THEN FALSE
    ELSE IF Head(a) # Head(b) THEN Head(a) > Head(b)
    ELSE TupleGE(Tail(a), Tail(b))

MergeRequestUrl(self, mr, endpoint) ==
    <<"projects", project_id(self), "merge_requests", mr, endpoint>>

\* refetch_info, lines 15-19.
approver_url(self, gitlab_version) ==
    IF TupleGE(gitlab_version.release, IidRelease)
    THEN MergeRequestUrl(self, iid(self), "approvals")
    ELSE MergeRequestUrl(self, id(self), "approvals")

\* approve_url without the release check: the iid at every release.
approve_url_iid(self, gitlab_version) == MergeRequestUrl(self, iid(self), "approve")

\* reapprove, lines 137-141.
approve_url(self, gitlab_version) ==
    IF TupleGE(gitlab_version.release, IidRelease)
    THEN MergeRequestUrl(self, iid(self), "approve")
    ELSE MergeRequestUrl(self, id(self), "approve")

changes_url(self) == MergeRequestUrl(self, iid(self), "changes")

emoji_url(self) == MergeRequestUrl(self, iid(self), "award_emoji")

get_changes_ce(self, api) == ApiCall(api, GET(changes_url(self)))

get_awards_ce(self, api) == ApiCall(api, GET(emoji_url(self)))

(***************************************************************************)
(* get_codeowners_ce: the CODEOWNERS file of master, parsed into a dict    *)
(* from glob to set of owners.                                             *)
(***************************************************************************)
EmptyDict == [k \in {} |-> {}]

\* setdefault that overwrites the entry of a key that is already there.
setdefault_overwrite(d, key, default) == (key :> default) @@ d

setdefault(d, key, default) == IF key \in DOMAIN d THEN d ELSE d @@ (key :> default)

OwnerName(user) == strip(user, "@")

RECURSIVE AddOwners(_, _, _)
AddOwners(owner_globs, glob, elements) ==
    IF elements = <<>> THEN owner_globs
    ELSE AddOwners([owner_globs EXCEPT ![glob] = @ \cup {OwnerName(Head(elements))}],
                   glob, Tail(elements))

Significant(line) == line # "" /\ ~startswith(line, " ") /\ ~startswith(line, "#")

RECURSIVE ParseLines(_, _)
ParseLines(lines, owner_globs) ==
    IF lines = <<>> THEN Returned(owner_globs)
    ELSE IF Significant(Head(lines)) THEN
        LET elements == shlex_split(Head(lines)) IN
        IF elements.raised THEN elements
        ELSE IF elements.value = <<>> THEN Raise("IndexError")
        ELSE LET glob == Head(elements.value) IN
             ParseLines(Tail(lines),
                        AddOwners(setdefault(owner_globs, glob, {}), glob, Tail(elements.value)))
    ELSE ParseLines(Tail(lines), owner_globs)

get_codeowners_ce(self, api) ==
    LET config_file == api.repo_file IN
    IF config_file.raised THEN config_file
    ELSE IF config_file.value = None THEN Returned(EmptyDict)
    ELSE ParseLines(splitlines(config_file.value.content), EmptyDict)

(***************************************************************************)
(* determine_responsible_owners: the owners of "*", then for every change  *)
(* and every glob the glob's owners when the change's new_path matches.    *)
(* The loop over the dict only adds to owners, so the order in which the   *)
(* globs are visited does not show in the result.                          *)
(***************************************************************************)
\* ForEachGlob that leaves the loop at the first matching glob.
RECURSIVE ForEachGlob_first_match(_, _, _, _)
ForEachGlob_first_match(change, owners_glob, globs, owners) ==
    IF globs = {} THEN owners
    ELSE LET glob == CHOOSE g \in globs : TRUE IN
         IF "new_path" \in DOMAIN change /\ fnmatch(change.new_path, glob)
         THEN owners \cup owners_glob[glob]
         ELSE ForEachGlob_first_match(change, owners_glob, globs \ {glob}, owners)

RECURSIVE ForEachGlob(_, _, _, _)
ForEachGlob(change, owners_glob, globs, owners) ==
    IF globs = {} THEN owners
    ELSE LET glob == CHOOSE g \in globs : TRUE IN
         ForEachGlob(change, owners_glob, globs \ {glob},
                     IF "new_path" \in DOMAIN change /\ fnmatch(change.new_path, glob)
                     THEN owners \cup owners_glob[glob]
                     ELSE owners)

RECURSIVE ForEachChange(_, _, _)
ForEachChange(changes, owners_glob, owners) ==
    IF changes = <<>> THEN owners
    ELSE ForEachChange(Tail(changes), owners_glob,
                       ForEachGlob(Head(changes), owners_glob, DOMAIN owners_glob, owners))

GlobalOwners(owners_glob) == IF "*" \in DOMAIN owners_glob THEN owners_glob["*"] ELSE {}

determine_responsible_owners(owners_glob, changes) ==
    IF "changes" \notin DOMAIN changes THEN GlobalOwners(owners_glob)
    ELSE ForEachChange(changes.changes, owners_glob, GlobalOwners(owners_glob))

(***************************************************************************)
(* get_approvers_ce: the approval state derived from CODEOWNERS, the       *)
(* changes and the thumbs on the merge request.  The outcome carries the   *)
(* requests issued on the way, in order.                                   *)
(***************************************************************************)
FileRequest(self) ==
    [method |-> "repo_file_get", url |-> <<project_id(self), "CODEOWNERS", "master">>]

\* dict(self._info, approvals_left=..., approved_by=..., codeowners=...)
ApprovalsDict(self, approvals_left, approved_by, codeowners) ==
    [approvals_left |-> approvals_left, approved_by |-> approved_by, codeowners |-> codeowners]
        @@ self

\* NoApproversFlow returning the cached state as it is.
NoApproversFlow_unchanged(self) == self

\* lines 32 and 38: the state returned when no owner has to approve.
NoApproversFlow(self) == ApprovalsDict(self, 0, <<>>, PyEmptyList)

UpVote(e, codeowners) == e.name = "thumbsup" /\ e.user.username \in codeowners

up_votes(awards, codeowners) == SelectSeq(awards, LAMBDA e : UpVote(e, codeowners))

\* approvals_left_ce without the floor at 0.
approvals_left_ce_no_floor(approver_count, votes) == approver_count - votes

approvals_left_ce(approver_count, votes) == Max(approver_count - votes, 0)

Raising(outcome, calls) == [raised |-> TRUE, exc |-> outcome.exc, calls |-> calls]

Returning(value, calls) == [raised |-> FALSE, value |-> value, calls |-> calls]

get_approvers_ce(self, api) ==
    LET owner_globs == get_codeowners_ce(self, api)
        c1 == <<FileRequest(self)>>
    IN
    IF owner_globs.raised THEN Raising(owner_globs, c1)
    ELSE IF DOMAIN owner_globs.value = {}
         THEN Returning(NoApproversFlow(self), c1)
    ELSE
    LET changes == get_changes_ce(self, api)
        c2 == Append(c1, GET(changes_url(self)))
    IN
    IF changes.raised THEN Raising(changes, c2)
    ELSE
    LET codeowners == determine_responsible_owners(owner_globs.value, changes.value) IN
    IF codeowners = {} THEN Returning(NoApproversFlow(self), c2)
    ELSE
    LET awards == get_awards_ce(self, api)
        c3 == Append(c2, GET(emoji_url(self)))
    IN
    IF awards.raised THEN Raising(awards, c3)
    ELSE
    LET votes == up_votes(awards.value, codeowners)
        approver_count == Cardinality(codeowners)
    IN Returning(ApprovalsDict(self, approvals_left_ce(approver_count, Len(votes)),
                               votes, PySet(codeowners)), c3)

(***************************************************************************)
(* refetch_info: the outcome names the exception that propagated (if any), *)
(* the value of self._info when the call ends, the requests issued and the *)
(* URLs constructed.                                                       *)
(***************************************************************************)
VersionRequest == [method |-> "version", url |-> <<"version">>]

\* AssignInfo with the cached approvals reset before the fetch has succeeded.
AssignInfo_reset_first(self, fetched) ==
    IF fetched.raised THEN ApprovalsDict(self, 0, <<>>, PyEmptyList) ELSE fetched.value

\* self._info is assigned once, from the value the chosen branch returned.
AssignInfo(self, fetched) == IF fetched.raised THEN self ELSE fetched.value

RequestUrls(calls) ==
    {calls[i].url : i \in {j \in DOMAIN calls : calls[j].method \in {"GET", "POST"}}}

refetch_info(self, api) ==
    LET gitlab_version == api.version
        c0 == <<VersionRequest>>
    IN
    IF gitlab_version.raised
    THEN [raised |-> TRUE, exc |-> gitlab_version.exc, info |-> self, calls |-> c0, urls |-> {}]
    ELSE
    LET url == approver_url(self, gitlab_version.value)
        fetched == IF gitlab_version.value.is_ee
                   THEN LET r == ApiCall(api, GET(url)) IN
                        IF r.raised THEN Raising(r, <<GET(url)>>)
                        ELSE Returning(r.value, <<GET(url)>>)
                   ELSE get_approvers_ce(self, api)
        calls == c0 \o fetched.calls
    IN [raised |-> fetched.raised,
        exc |-> IF fetched.raised THEN fetched.exc ELSE "",
        info |-> AssignInfo(self, fetched),
        calls |-> calls,
        urls |-> {url} \cup RequestUrls(calls)]

(***************************************************************************)
(* The accessors of the cached state.                                      *)
(***************************************************************************)
approvals_left(self) == self["approvals_left"]

sufficient(self) == self["approvals_left"] = 0

approver_ids(self) ==
    IF "approved_by" \notin DOMAIN self THEN Raise("KeyError")
    ELSE Returned([i \in DOMAIN self["approved_by"] |-> self["approved_by"][i].user.id])

codeowners(self) ==
    IF "approvers" \in DOMAIN self
    THEN IF "codeowners" \in DOMAIN self THEN Returned(self["codeowners"]) ELSE Raise("KeyError")
    ELSE Returned(PyEmptyList)

(***************************************************************************)
(* reapprove: one approve POST per recorded approver, as that approver.    *)
(* The loop ends at the first call that raises.                            *)
(***************************************************************************)
Sudo(request, uid) == [method |-> request.method, url |-> request.url, sudo |-> uid]

\* ApproveLoop with every failure caught: the loop goes on to the next approver.
RECURSIVE ApproveLoop_continue(_, _, _, _, _)
ApproveLoop_continue(url, uids, n, failing, calls) ==
    IF uids = <<>> THEN [raised |-> FALSE, exc |-> "", calls |-> calls]
    ELSE ApproveLoop_continue(url, Tail(uids), n + 1, failing,
                              Append(calls, Sudo(POST(url), Head(uids))))

RECURSIVE ApproveLoop(_, _, _, _, _)
ApproveLoop(url, uids, n, failing, calls) ==
    IF uids = <<>> THEN [raised |-> FALSE, exc |-> "", calls |-> calls]
    ELSE LET issued == Append(calls, Sudo(POST(url), Head(uids))) IN
         IF n = failing THEN [raised |-> TRUE, exc |-> "ApiError", calls |-> issued]
         ELSE ApproveLoop(url, Tail(uids), n + 1, failing, issued)

reapprove(self, api) ==
    LET gitlab_version == api.version
        c0 == <<VersionRequest>>
    IN
    IF gitlab_version.raised
    THEN [raised |-> TRUE, exc |-> gitlab_version.exc, calls |-> c0, urls |-> {}]
    ELSE
    LET url == approve_url(self, gitlab_version.value) IN
    IF gitlab_version.value.is_ee
    THEN LET uids == approver_ids(self) IN
         IF uids.raised
         THEN [raised |-> TRUE, exc |-> uids.exc, calls |-> c0, urls |-> {url}]
         ELSE LET loop == ApproveLoop(url, uids.value, 1, api.approve, <<>>) IN
              [raised |-> loop.raised, exc |-> loop.exc, calls |-> c0 \o loop.calls,
               urls |-> {url}]
    ELSE [raised |-> FALSE, exc |-> "", calls |-> c0, urls |-> {url}]

(***************************************************************************)
(* The data of the model: users, reactions, CODEOWNERS contents, change    *)
(* payloads, native approvals responses and host versions.                 *)
(***************************************************************************)
User(username, uid) == [username |-> username, id |-> uid]

Alice == User("alice", 11)

Bob == User("bob", 12)

Carol == User("carol", 13)

Dave == User("dave", 14)

Reaction(name, user) == [name |-> name, user |-> user]

\* Approvals(api, info): the caller passes the ids of the merge request.
InitInfo == [id |-> 5, iid |-> 6, project_id |-> 1]

Approval(user) == [user |-> user]

NativeResponses ==
    { [id |-> 5, iid |-> 6, project_id |-> 1, approvals_required |-> 2, approvals_left |-> 0,
       approved_by |-> <<Approval(Alice), Approval(Bob), Approval(Alice)>>, approvers |-> <<>>],
      [id |-> 5, iid |-> 6, project_id |-> 1, approvals_required |-> 2, approvals_left |-> 1,
       approved_by |-> <<Approval(Carol)>>] }

Releases == {<<8, 17, 4>>, <<9, 2, 1>>, <<9, 2, 2>>, <<10, 0, 0>>}

Versions == [release : Releases, is_ee : BOOLEAN]

CommunityVersion == [release |-> <<10, 0, 0>>, is_ee |-> FALSE]

File(content) == [content |-> content]

Changes(list) == [changes |-> list]

Change(path) == [new_path |-> path, old_path |-> path]

Deleted(path) == [old_path |-> path]

NoChanges == [message |-> "404 Not found"]

Unread == [unread |-> TRUE]

ApiError == Raise("ApiError")

\* The answers of a host on which the call to endpoint failing (if any) fails.
Host(version, file, changes, awards, response, failing, approve) ==
    [e \in ApiEndpoints |->
        IF e = "approve" THEN approve
        ELSE IF e = failing THEN ApiError
        ELSE Returned(CASE e = "version" -> version
                        [] e = "approvals" -> response
                        [] e = "repo_file" -> file
                        [] e = "changes" -> changes
                        [] e = "award_emoji" -> awards)]

Endpoint(request) ==
    IF request.method = "repo_file_get" THEN "repo_file" ELSE request.url[Len(request.url)]

\* What the operation read of the host: the answers to the requests it issued.
Seen(api, calls) ==
    LET called == {Endpoint(calls[i]) : i \in DOMAIN calls}
        posts == Cardinality({i \in DOMAIN calls : calls[i].method = "POST"})
    IN [e \in ApiEndpoints |->
           IF e \notin called THEN Unread
           ELSE IF e = "approve" THEN (IF api[e] <= posts THEN api[e] ELSE 0)
           ELSE api[e]]

(***************************************************************************)
(* The operations as actions.  last records the latest operation: what it  *)
(* read of the host, the requests it issued, the URLs it constructed and   *)
(* how it ended.                                                           *)
(***************************************************************************)
Record(op, api, outcome) ==
    [op |-> op, api |-> Seen(api, outcome.calls), raised |-> outcome.raised,
     exc |-> outcome.exc, calls |-> outcome.calls, urls |-> outcome.urls]

RefetchInfo(api) ==
    LET outcome == refetch_info(_info, api) IN
    /\ _info' = outcome.info
    /\ last' = Record("refetch_info", api, outcome)

Reapprove(api) ==
    LET outcome == reapprove(_info, api) IN
    /\ _info' = _info
    /\ last' = Record("reapprove", api, outcome)

(***************************************************************************)
(* Spec: one Approvals object over its life, against a host whose answers  *)
(* (edition, release, CODEOWNERS, reactions, failures) vary from one       *)
(* operation to the next.                                                  *)
(***************************************************************************)
MaxFailAt == 3

HostFiles == {None, File("* alice bob"), File("*.go carol"), File("\"*.c dave")}

HostAwards ==
    { <<Reaction("thumbsup", Alice)>>,
      <<Reaction("thumbsup", Alice), Reaction("thumbsdown", Bob), Reaction("thumbsup", Alice),
        Reaction("thumbsup", Bob)>> }

HostChanges == {Changes(<<Change("x.py")>>)}

Failing == {"none", "version", "approvals", "repo_file", "changes", "award_emoji"}

RefetchHosts ==
    { Host(v, f, c, a, r, x, 0) :
        v \in Versions, f \in HostFiles, c \in HostChanges, a \in HostAwards,
        r \in NativeResponses, x \in Failing }

ReapproveHosts ==
    { Host(v, None, NoChanges, <<>>, Unread, x, k) :
        v \in Versions, x \in {"none", "version"}, k \in 0..MaxFailAt }

Init ==
    /\ _info = InitInfo
    /\ last = [op |-> "init"]

DoRefetchInfo == \E api \in RefetchHosts : RefetchInfo(api)

DoReapprove == \E api \in ReapproveHosts : Reapprove(api)

Next == DoRefetchInfo \/ DoReapprove

Spec == Init /\ [][Next]_vars

SeqsUpTo(S, n) == UNION {[1..k -> S] : k \in 0..n}

(***************************************************************************)
(* SpecCE: refetch_info on a community host, for every combination of      *)
(* CODEOWNERS file, change payload and reaction list within the bounds.    *)
(***************************************************************************)
MaxAwards == 2

MaxChanges == 2

CEInfos ==
    { InitInfo,
      [id |-> 5, iid |-> 6, project_id |-> 1, approvals_required |-> 2, approvals_left |-> 1,
       approved_by |-> <<Approval(Carol)>>, approvers |-> <<>>] }

CEFiles ==
    { None, File(""), File("# owners\n"), File("* alice bob"), File("*.go carol"),
      File("*.py @alice\n*.py bob"), File("x.* @alice"), File("*.md\n") }

CEChangeLists == SeqsUpTo({Change("x.py"), Change("m.go"), Deleted("x.py")}, MaxChanges)

CEChanges == {NoChanges} \cup {Changes(list) : list \in CEChangeLists}

CEAwards ==
    SeqsUpTo({Reaction("thumbsup", Alice), Reaction("thumbsup", Bob),
              Reaction("thumbsdown", Alice), Reaction("thumbsup", Dave)}, MaxAwards)

InitCE ==
    /\ _info \in CEInfos
    /\ \E f \in CEFiles, c \in CEChanges, a \in CEAwards :
           last = [op |-> "start",
                   api |-> Host(CommunityVersion, f, c, a, Unread, "none", 0)]

RefetchCE == last.op = "start" /\ RefetchInfo(last.api)

SpecCE == InitCE /\ [][RefetchCE]_vars

(***************************************************************************)
(* SpecOwners: determine_responsible_owners on every dict of owner rules   *)
(* and every change payload within the bounds.                             *)
(***************************************************************************)
OwnerGlobs == {"*", "*.py", "x.*", "docs/*"}

OwnerSets == {{}, {"alice"}, {"bob", "carol"}}

OwnerDicts == UNION {[globs -> OwnerSets] : globs \in SUBSET OwnerGlobs}

OwnerChangeLists ==
    SeqsUpTo({Change("x.py"), Change("docs/a.md"), Deleted("x.py")}, MaxChanges)

OwnerChanges == {NoChanges} \cup {Changes(list) : list \in OwnerChangeLists}

InitOwners ==
    /\ _info = InitInfo
    /\ \E owners_glob \in OwnerDicts, changes \in OwnerChanges :
           last = [op |-> "start", owners_glob |-> owners_glob, changes |-> changes]

DetermineOwners ==
    /\ last.op = "start"
    /\ last' = [op |-> "determine_responsible_owners", owners_glob |-> last.owners_glob,
                changes |-> last.changes,
                ret |-> determine_responsible_owners(last.owners_glob, last.changes)]
    /\ UNCHANGED _info

SpecOwners == InitOwners /\ [][DetermineOwners]_vars

(***************************************************************************)
(* SpecParse: get_codeowners_ce on an absent file and on every file of at  *)
(* most MaxLines of the lines below.                                       *)
(***************************************************************************)
MaxLines == 2

FileLines ==
    { "* alice bob", "*.py @alice", "*.py bob", "*.md", "# *.py carol", " *.py dave", "",
      "docs/* @@carol@ @", "\"a b\" 'c d' e\\ f", "*.go dave@\r\n*.go @erin", "\"*.c", "\t" }

RECURSIVE JoinLines(_)
JoinLines(lines) ==
    IF lines = <<>> THEN "" ELSE (Head(lines) \o "\n") \o JoinLines(Tail(lines))

ConfigFiles == {None} \cup {File(JoinLines(lines)) : lines \in SeqsUpTo(FileLines, MaxLines)}

InitParse ==
    /\ _info = InitInfo
    /\ \E config_file \in ConfigFiles : last = [op |-> "start", config_file |-> config_file]

GetCodeowners ==
    /\ last.op = "start"
    /\ last' = [op |-> "get_codeowners_ce", config_file |-> last.config_file,
                ret |-> get_codeowners_ce(_info,
                            Host(CommunityVersion, last.config_file, NoChanges, <<>>,
                                 Unread, "none", 0))]
    /\ UNCHANGED _info

SpecParse == InitParse /\ [][GetCodeowners]_vars

(***************************************************************************)
(* Properties of Spec.                                                     *)
(***************************************************************************)
RefetchDone == last.op = "refetch_info" /\ ~last.raised

VersionSeen == last.op # "init" /\ last.api.version # Unread /\ ~last.api.version.raised

Enterprise == VersionSeen /\ last.api.version.value.is_ee

Community == VersionSeen /\ ~last.api.version.value.is_ee

\* release < (9, 2, 2), spelled out component by component.
Legacy(release) ==
    \/ release[1] < 9
    \/ release[1] = 9 /\ release[2] < 2
    \/ release[1] = 9 /\ release[2] = 2 /\ release[3] < 2

Posts == SelectSeq(last.calls, LAMBDA c : c.method = "POST")

\* The owners the latest emulated refetch resolved from what it read.
Resolved ==
    LET owner_globs == get_codeowners_ce(InitInfo, last.api) IN
    IF owner_globs.raised \/ last.api.changes = Unread \/ last.api.changes.raised THEN {}
    ELSE determine_responsible_owners(owner_globs.value, last.api.changes.value)

\* C1: after refetch_info on an enterprise host the cached state is the
\* response of the approvals endpoint, unmodified, and the codeowners accessor
\* returns an empty result.
C1_NativePassThrough ==
    (RefetchDone /\ Enterprise) =>
        /\ _info = last.api.approvals.value
        /\ codeowners(_info) = Returned(PyEmptyList)

\* C8: after an emulated refetch_info that resolves a non-empty owner set, the
\* codeowners accessor returns exactly that owner set.
C8_AccessorReturnsOwners ==
    (RefetchDone /\ Community /\ Resolved # {}) =>
        codeowners(_info) = Returned(PySet(Resolved))

\* C7: the state cached by an emulated refetch_info depends only on the
\* upstream data read during the call: it is the state that the first refetch
\* of a newly constructed object caches when it reads the same data, whatever
\* refetches came before.
C7_FreshState ==
    (RefetchDone /\ Community) => _info = refetch_info(InitInfo, last.api).info

C6_ReapprovePrefix ==
    last.op = "reapprove" =>
        IF Enterprise /\ "approved_by" \in DOMAIN _info
        THEN LET approved_by == _info["approved_by"] IN
             /\ Len(Posts) <= Len(approved_by)
             /\ \A i \in DOMAIN Posts :
                    /\ Posts[i].sudo = approved_by[i].user.id
                    /\ Posts[i].url = approve_url(_info, last.api.version.value)
             /\ ~last.raised => Len(Posts) = Len(approved_by)
             /\ last.raised => /\ Posts # <<>>
                               /\ last.api.approve = Len(Posts)
             /\ Posts # <<>> => (last.raised <=> last.api.approve # 0)
        ELSE Posts = <<>>

C6_Witness ==
    /\ last.op = "reapprove"
    /\ Enterprise
    /\ last.raised
    /\ Len(Posts) = 2
    /\ Len(_info["approved_by"]) = 3

\* C10: when an upstream call made during a refetch_info fails, the error
\* propagates and the cached state stays as it was before the call; the cached
\* state changes only in a refetch_info in which every call has succeeded.
C10_FailureKeepsState ==
    [][/\ (/\ last'.op = "refetch_info"
           /\ \E e \in ApiEndpoints \ {"approve"} : last'.api[e] = ApiError) =>
              (last'.raised /\ last'.exc = "ApiError")
       /\ (last'.op # "refetch_info" \/ last'.raised) => _info' = _info]_vars

C10_Witness ==
    /\ last.op = "refetch_info"
    /\ last.raised
    /\ Community
    /\ Len(last.calls) = 4
    /\ _info # InitInfo

(***************************************************************************)
(* Properties of SpecCE.                                                   *)
(***************************************************************************)
Qualifies(e) == e.name = "thumbsup" /\ e.user.username \in Resolved

\* C2: on the emulated path with a non-empty resolved owner set, approved_by
\* is the sub-sequence, in upstream order and as full records, of the
\* reactions named thumbsup whose user is a resolved owner, and approvals_left
\* is max(|codeowners| - length(approved_by), 0), never negative.
C2_Tally ==
    (RefetchDone /\ Community /\ Resolved # {}) =>
        LET awards == last.api.award_emoji.value
            approved_by == _info["approved_by"]
            qualifying == {i \in DOMAIN awards : Qualifies(awards[i])}
            owners == Cardinality(Resolved)
            votes == Len(approved_by)
        IN /\ votes = Cardinality(qualifying)
           /\ \A k \in 1..votes :
                  \E i \in qualifying :
                      /\ Cardinality({j \in qualifying : j <= i}) = k
                      /\ approved_by[k] = awards[i]
           /\ _info["approvals_left"] = (IF owners > votes THEN owners - votes ELSE 0)
           /\ _info["approvals_left"] >= 0
           /\ _info["codeowners"] = PySet(Resolved)

C2_Witness ==
    /\ RefetchDone
    /\ Community
    /\ Resolved = {"alice"}
    /\ Len(_info["approved_by"]) = 2
    /\ _info["approved_by"][1] = _info["approved_by"][2]
    /\ _info["approvals_left"] = 0

\* C3: on the emulated path, when the CODEOWNERS file is absent, yields no
\* owner rule, or resolves to no owner for the changed files, refetch_info
\* caches approvals_left = 0, approved_by = [] and codeowners = [], and the
\* merge request is sufficient.
C3_NoOwnersShortCircuit ==
    (/\ RefetchDone
     /\ Community
     /\ \/ last.api.repo_file.value = None
        \/ DOMAIN get_codeowners_ce(InitInfo, last.api).value = {}
        \/ Resolved = {}) =>
        /\ {"approvals_left", "approved_by", "codeowners"} \subseteq DOMAIN _info
        /\ _info["approvals_left"] = 0
        /\ _info["approved_by"] = <<>>
        /\ _info["codeowners"] = PyEmptyList
        /\ sufficient(_info)

C3_Witness ==
    /\ RefetchDone
    /\ Community
    /\ last.api.repo_file.value = File("*.go carol")
    /\ last.api.changes = Returned(Changes(<<Change("x.py")>>))
    /\ _info["approvals_left"] = 0
    /\ _info["codeowners"] = PyEmptyList

(***************************************************************************)
(* Properties of SpecOwners.                                               *)
(***************************************************************************)
\* C4: determine_responsible_owners returns the union of the owners of the
\* glob "*" (for every payload) and, for every pair of a changed file and a
\* rule whose glob matches the file's new_path, that rule's owners; without a
\* "changes" key the result is the owners of "*" only.
C4_OwnersUnion ==
    last.op = "determine_responsible_owners" =>
        LET owners_glob == last.owners_glob
            global == IF "*" \in DOMAIN owners_glob THEN owners_glob["*"] ELSE {}
            files == IF "changes" \in DOMAIN last.changes
                     THEN {last.changes.changes[i] : i \in DOMAIN last.changes.changes}
                     ELSE {}
            matching == {p \in files \X DOMAIN owners_glob :
                            "new_path" \in DOMAIN p[1] /\ fnmatch(p[1].new_path, p[2])}
        IN last.ret = global \cup UNION {owners_glob[p[2]] : p \in matching}

C4_Witness ==
    /\ last.op = "determine_responsible_owners"
    /\ last.changes = Changes(<<Change("x.py"), Deleted("x.py")>>)
    /\ DOMAIN last.owners_glob = {"*.py", "x.*", "docs/*"}
    /\ last.owners_glob["*.py"] = {"alice"}
    /\ last.owners_glob["x.*"] = {"bob", "carol"}
    /\ last.ret = {"alice", "bob", "carol"}

(***************************************************************************)
(* Properties of SpecParse.                                                *)
(***************************************************************************)
Parsed == last.op = "get_codeowners_ce" /\ ~last.ret.raised

SignificantLines ==
    LET lines == splitlines(last.config_file.content) IN
    {lines[i] : i \in {j \in DOMAIN lines : lines[j] # "" /\ Head(lines[j]) \notin {" ", "#"}}}

Glob(line) == Head(shlex_split(line).value)

OwnerTokens(line) ==
    LET tokens == shlex_split(line).value IN {tokens[i] : i \in 2..Len(tokens)}

\* The token without one leading "@".
StripOneLeading(s, c) == IF s # "" /\ Head(s) = c THEN Tail(s) ELSE s

\* The token without its leading and trailing run of "@".
WithoutAts(token) ==
    LET kept == {i \in 1..Len(token) : SubSeq(token, i, i) # "@"} IN
    IF kept = {} THEN ""
    ELSE SubSeq(token, CHOOSE i \in kept : \A j \in kept : i <= j,
                CHOOSE i \in kept : \A j \in kept : i >= j)

====
